---- MODULE Spec2Model ----
(***************************************************************************)
(* runvmtest (tools/runvmtest/main.go): stage the kernel and QEMU          *)
(* artifacts of the selected architecture into a temporary directory,      *)
(* render VMTEST_KERNEL / VMTEST_QEMU from their templates, and run the    *)
(* target command with the augmented environment.                          *)
(*                                                                         *)
(* Two threads of control are modelled: the main flow (main -> run ->      *)
(* runNatively, with its stack of deferred calls run in LIFO order) and    *)
(* the cleanup goroutine started by runNatively when -keep-artifacts is    *)
(* not given.  The environment delivers SIGINT at arbitrary moments.       *)
(*                                                                         *)
(* Representation: an environment entry "NAME=value" is the record         *)
(* [name |-> NAME, value |-> value]; a Go map is a set of <<key, value>>   *)
(* pairs; a template string is the sequence of its lexed tokens.           *)
(***************************************************************************)
EXTENDS Integers, Sequences, FiniteSets, TLC

VARIABLES
    keepArtifacts,  \* the -keep-artifacts flag
    archEnv,        \* ambient value of VMTEST_ARCH ("" when unset)
    goarch,         \* runtime.GOARCH of the build
    environ,        \* os.Environ(): sequence of entries, fixed for the run
    args,           \* flag.Args(): the positional arguments
    mpc,            \* position of the main flow
    killed,         \* the process was terminated by an uncaught SIGINT
    config,         \* run's config := defaultConfig(), a set of specs
    remaining,      \* specs the range loops of runNatively have not visited
    curContainer,   \* container whose inner loop is being iterated
    staged,         \* <<container, path>> added to base by WithFile/WithDirectory
    envv,           \* runNatively's envv
    ctx,            \* runNatively's ctx variable: "background" or "cancellable"
    cancelled,      \* cancel() has been called on the cancellable context
    tmpDir,         \* runNatively's tmpDir variable ("" until stored)
    tmp,            \* runNatively's tmp (absolute path)
    dirExists,      \* the temporary directory exists on disk
    created,        \* os.MkdirTemp succeeded in this run
    defers,         \* runNatively's deferred calls, last registered last
    err,            \* the error the main flow is returning ("" is nil)
    notifyOn,       \* signal.Notify(c, os.Interrupt) is in force
    sigbuf,         \* number of signals buffered in channel c
    gpc,            \* position of the cleanup goroutine
    gdone,          \* the Done channel the goroutine's select was entered with
    removals,       \* who called os.RemoveAll on the temporary directory, in order
    spawned,        \* the target command was started
    childEnv,       \* cmd.Env of the target command
    printed,        \* the "%s ...\n" line printed under -keep-artifacts
    exportRes,      \* whether artifacts.Export was called and what it returned
    exitStatus,     \* process exit status (-1 while running)
    interrupts,     \* SIGINTs delivered so far
    caught          \* a SIGINT was queued on c before the main flow began to return

vars == <<keepArtifacts, archEnv, goarch, environ, args, mpc, killed, config,
          remaining, curContainer, staged, envv, ctx, cancelled, tmpDir, tmp,
          dirExists, created, defers, err, notifyOn, sigbuf, gpc, gdone,
          removals, spawned, childEnv, printed, exportRes, exitStatus,
          interrupts, caught>>

(***************************************************************************)
(* Bounds and program constants                                            *)
(***************************************************************************)
MaxInterrupts == 2

MinArgs == 2

SigChanCap == 1

TargetVars == {"VMTEST_KERNEL", "VMTEST_QEMU"}

(***************************************************************************)
(* Generic helpers                                                         *)
(***************************************************************************)
Range(s) == {s[i] : i \in 1..Len(s)}

Entry(n, v) == [name |-> n, value |-> v]

\* Value of the last entry named n in env, "" when there is none.
RECURSIVE LookupLast(_, _)
LookupLast(env, n) ==
    IF env = <<>> THEN ""
    ELSE IF env[Len(env)].name = n THEN env[Len(env)].value
    ELSE LookupLast(SubSeq(env, 1, Len(env) - 1), n)

Getenv(n) == LookupLast(environ, n)

ChildGetenv(n) == LookupLast(childEnv, n)

RECURSIVE StringsJoin(_, _)
StringsJoin(elems, sep) ==
    IF elems = <<>> THEN ""
    ELSE IF Len(elems) = 1 THEN elems[1]
    ELSE elems[1] \o sep \o StringsJoin(Tail(elems), sep)

EntryString(e) == e.name \o "=" \o e.value

EntryStrings(es) == [i \in 1..Len(es) |-> EntryString(es[i])]

(***************************************************************************)
(* The configuration table                                                 *)
(***************************************************************************)
Text(s) == [kind |-> "text", text |-> s, root |-> "", key |-> ""]

Field(r, k) == [kind |-> "field", text |-> "", root |-> r, key |-> k]

EnvVar(c, v, t, f, d) ==
    [container |-> c, varName |-> v, Template |-> t, Files |-> f, Directories |-> d]

QemuImage == "ghcr.io/hugelgupf/vmtest/qemu:main"

configs ==
    [amd64 |->
        { EnvVar("ghcr.io/hugelgupf/vmtest/kernel-amd64:main", "VMTEST_KERNEL",
                 << Field("Files", "bzImage") >>,
                 { <<"bzImage", "/bzImage">> }, {}),
          EnvVar(QemuImage, "VMTEST_QEMU",
                 << Field("Files", "qemu"), Text("/bin/qemu-system-x86_64 -L "),
                    Field("Files", "qemu"), Text("/pc-bios -m 1G") >>,
                 {}, { <<"qemu", "/zqemu">> }) },
     arm |->
        { EnvVar("ghcr.io/hugelgupf/vmtest/kernel-arm:main", "VMTEST_KERNEL",
                 << Field("Files", "zImage") >>,
                 { <<"zImage", "/zImage">> }, {}),
          EnvVar(QemuImage, "VMTEST_QEMU",
                 << Field("Files", "qemu"),
                    Text("/bin/qemu-system-arm -M virt,highmem=off -L "),
                    Field("Files", "qemu"), Text("/pc-bios") >>,
                 {}, { <<"qemu", "/zqemu">> }) },
     arm64 |->
        { EnvVar("ghcr.io/hugelgupf/vmtest/kernel-arm64:main", "VMTEST_KERNEL",
                 << Field("Files", "Image") >>,
                 { <<"Image", "/Image">> }, {}),
          EnvVar(QemuImage, "VMTEST_QEMU",
                 << Field("Files", "qemu"),
                    Text("/bin/qemu-system-aarch64 -machine virt -cpu max -m 1G -L "),
                    Field("Files", "qemu"), Text("/pc-bios") >>,
                 {}, { <<"qemu", "/zqemu">> }) }]

Supported(a) == a \in DOMAIN configs

defaultConfigFallsBackToAmd64(arch, hostArch) ==
    IF Supported(arch) THEN configs[arch]
    ELSE IF Supported(hostArch) THEN configs[hostArch]
    ELSE configs["amd64"]

defaultConfig(arch, hostArch) ==
    IF Supported(arch) THEN configs[arch]
    ELSE IF Supported(hostArch) THEN configs[hostArch]
    ELSE {}

(***************************************************************************)
(* text/template: Parse and Execute over the lexed template                *)
(***************************************************************************)
\* template.Parse: fails on any token that is neither text nor a field action.
ParseTemplate(t) ==
    [ok |-> \A i \in 1..Len(t) : t[i].kind \in {"text", "field"}, tokens |-> t]

MapHas(m, k) == \E p \in m : p[1] = k

MapGet(m, k) == (CHOOSE p \in m : p[1] = k)[2]

MapPut(m, k, v) == {p \in m : p[1] # k} \cup {<<k, v>>}

\* Evaluation of one token against the data struct{Files map[string]string}:
\* a field of the struct other than Files is an execution error; a key the
\* map lacks prints as "<no value>" (the default missingkey option).
EvalToken(tok, filesMap) ==
    IF tok.kind = "text" THEN [ok |-> TRUE, out |-> tok.text]
    ELSE IF tok.root # "Files" THEN [ok |-> FALSE, out |-> ""]
    ELSE IF MapHas(filesMap, tok.key) THEN [ok |-> TRUE, out |-> MapGet(filesMap, tok.key)]
    ELSE [ok |-> TRUE, out |-> "<no value>"]

RECURSIVE ExecuteTemplate(_, _)
ExecuteTemplate(tokens, filesMap) ==
    IF tokens = <<>> THEN [ok |-> TRUE, out |-> ""]
    ELSE LET h == EvalToken(Head(tokens), filesMap)
             r == ExecuteTemplate(Tail(tokens), filesMap)
         IN  IF h.ok /\ r.ok THEN [ok |-> TRUE, out |-> h.out \o r.out]
             ELSE [ok |-> FALSE, out |-> ""]

(***************************************************************************)
(* Paths                                                                   *)
(***************************************************************************)
\* os.MkdirTemp(".", "ci-testing"): "./ci-testing" followed by a random suffix.
TmpDirName == "./ci-testing2814"

Cwd == "/home/user/vmtest"

\* filepath.Abs of the MkdirTemp result: the working directory joined with
\* the cleaned relative name.
FilepathAbs(p) == IF p = TmpDirName THEN Cwd \o "/ci-testing2814" ELSE p

\* filepath.Join(tmp, p) for an in-container path p, which starts with "/".
FilepathJoin(a, p) == a \o p

\* The two inner loops of runNatively that fill files.Files.
RECURSIVE PutAll(_, _, _)
PutAll(m, pairs, base) ==
    IF pairs = {} THEN m
    ELSE LET p == CHOOSE q \in pairs : TRUE
         IN  PutAll(MapPut(m, p[1], FilepathJoin(base, p[2])), pairs \ {p}, base)

FilesFor(varConf, base) == PutAll(PutAll({}, varConf.Files, base), varConf.Directories, base)

StagedFor(varConf) ==
    {<<varConf.container, p[2]>> : p \in varConf.Files \cup varConf.Directories}

(***************************************************************************)
(* Decisions of run and runNatively                                        *)
(***************************************************************************)
\* run: if flag.NArg() < 2
TooFewArgs(a) == Len(a) < MinArgs

AlreadySetNever(varName) == FALSE

\* runNatively: if os.Getenv(varName) != "" { continue }
AlreadySet(varName) == Getenv(varName) # ""

ExportFailedOnErrOnly(ok, e) == e

\* runNatively: if ok, err := artifacts.Export(ctx, tmpDir); !ok || err != nil
ExportFailed(ok, e) == ~ok \/ e

\* Deferred calls registered by the !*keepArtifacts block, in program order.
CleanupDefers(keep) ==
    IF keep THEN <<>> ELSE <<"close_c", "signal_stop", "wg_wait">>

CancelDefersNone == <<>>

\* defer cancel()
CancelDefers == <<"cancel">>

TmpDirDefersNone(keep) == <<>>

TmpDirDefersAlways(keep) == <<"remove_tmp">>

\* if !*keepArtifacts { defer os.RemoveAll(tmpDir) }
TmpDirDefers(keep) == IF keep THEN <<>> ELSE <<"remove_tmp">>

\* if *keepArtifacts { defer func() { ...Printf("%s ...\n", Join(envv, " ")) }() }
PrintDefers(keep) == IF keep THEN <<"print_envv">> ELSE <<>>

\* fmt.Printf("%s ...\n", strings.Join(envv, " "))
PrintedLine(es) == StringsJoin(EntryStrings(es), " ") \o " ..."

(***************************************************************************)
(* Inputs                                                                  *)
(***************************************************************************)
ArchEnvValues == {"", "amd64", "arm", "arm64", "riscv64"}

GoarchValues == {"amd64", "riscv64"}

ArgsValues == { <<>>, <<"./test-to-run">>, <<"go", "test">> }

AmbientKernel == { <<>>, << Entry("VMTEST_KERNEL", "") >>,
                   << Entry("VMTEST_KERNEL", "/boot/vmlinuz") >> }

AmbientQemu == { <<>>, << Entry("VMTEST_QEMU", "") >>,
                 << Entry("VMTEST_QEMU", "qemu-system-x86_64 -enable-kvm") >> }

BaseEnviron == << Entry("PATH", "/usr/bin") >>

Alive == ~killed /\ mpc # "exited"

\* The main flow has finished its work and is running deferred calls or later.
Completing == mpc \in {"returning", "run_returned", "exited"}

Init ==
    /\ keepArtifacts \in BOOLEAN
    /\ archEnv \in ArchEnvValues
    /\ goarch \in GoarchValues
    /\ \E k \in AmbientKernel, q \in AmbientQemu : environ = BaseEnviron \o k \o q
    /\ args \in ArgsValues
    /\ mpc = "start"
    /\ killed = FALSE
    /\ config = {}
    /\ remaining = {}
    /\ curContainer = ""
    /\ staged = {}
    /\ envv = <<>>
    /\ ctx = "background"
    /\ cancelled = FALSE
    /\ tmpDir = ""
    /\ tmp = ""
    /\ dirExists = FALSE
    /\ created = FALSE
    /\ defers = <<>>
    /\ err = ""
    /\ notifyOn = FALSE
    /\ sigbuf = 0
    /\ gpc = "none"
    /\ gdone = "none"
    /\ removals = <<>>
    /\ spawned = FALSE
    /\ childEnv = <<>>
    /\ printed = ""
    /\ exportRes = [called |-> FALSE, ok |-> FALSE, err |-> FALSE]
    /\ exitStatus = -1
    /\ interrupts = 0
    /\ caught = FALSE

inputs == <<keepArtifacts, archEnv, goarch, environ, args>>

(***************************************************************************)
(* The main flow: main -> run -> runNatively                               *)
(***************************************************************************)
Push(ds) == defers' = defers \o ds

Fail(e) == /\ err' = e
           /\ mpc' = "returning"

\* run, up to the argument check: config := defaultConfig(); flag.Parse();
\* if flag.NArg() < 2 { return error }
run ==
    /\ Alive /\ mpc = "start"
    /\ config' = defaultConfig(archEnv, goarch)
    /\ IF TooFewArgs(args)
         THEN err' = "usage" /\ mpc' = "run_returned"
         ELSE err' = err /\ mpc' = "connect"
    /\ UNCHANGED <<inputs, killed, remaining, curContainer, staged, envv, ctx,
                   cancelled, tmpDir, tmp, dirExists, created, defers, notifyOn,
                   sigbuf, gpc, gdone, removals, spawned, childEnv, printed,
                   exportRes, exitStatus, interrupts, caught>>

\* run: client, err := dagger.Connect(ctx, ...); on success defer client.Close()
\* and call runNatively.
Connect ==
    /\ Alive /\ mpc = "connect"
    /\ \E ok \in BOOLEAN :
         IF ok THEN err' = err /\ mpc' = "setup"
               ELSE err' = "connect" /\ mpc' = "run_returned"
    /\ UNCHANGED <<inputs, killed, config, remaining, curContainer, staged, envv,
                   ctx, cancelled, tmpDir, tmp, dirExists, created, defers,
                   notifyOn, sigbuf, gpc, gdone, removals, spawned, childEnv,
                   printed, exportRes, exitStatus, interrupts, caught>>

\* runNatively, the !*keepArtifacts block: make the channel, signal.Notify,
\* start the goroutine, and register close(c), signal.Stop(c), wg.Wait().
SetupCleanup ==
    /\ Alive /\ mpc = "setup"
    /\ IF keepArtifacts
         THEN UNCHANGED <<notifyOn, gpc>>
         ELSE notifyOn' = TRUE /\ gpc' = "start"
    /\ Push(CleanupDefers(keepArtifacts))
    /\ mpc' = "with_cancel"
    /\ UNCHANGED <<inputs, killed, config, remaining, curContainer, staged, envv,
                   ctx, cancelled, tmpDir, tmp, dirExists, created, err, sigbuf,
                   gdone, removals, spawned, childEnv, printed, exportRes,
                   exitStatus, interrupts, caught>>

\* ctx, cancel := context.WithCancel(ctx); defer cancel().  ctx is the
\* function's parameter, so := assigns the variable the goroutine reads.
WithCancel ==
    /\ Alive /\ mpc = "with_cancel"
    /\ ctx' = "cancellable"
    /\ Push(CancelDefers)
    /\ mpc' = "mkdir"
    /\ UNCHANGED <<inputs, killed, config, remaining, curContainer, staged, envv,
                   cancelled, tmpDir, tmp, dirExists, created, err, notifyOn,
                   sigbuf, gpc, gdone, removals, spawned, childEnv, printed,
                   exportRes, exitStatus, interrupts, caught>>

\* The call os.MkdirTemp(".", "ci-testing"): the directory is on disk once the
\* call returns, before its result is stored in tmpDir.
MkdirTemp ==
    /\ Alive /\ mpc = "mkdir"
    /\ \E ok \in BOOLEAN :
         IF ok THEN /\ dirExists' = TRUE
                    /\ created' = TRUE
                    /\ err' = err
                    /\ mpc' = "store_tmpdir"
               ELSE /\ UNCHANGED <<dirExists, created>>
                    /\ Fail("mkdir")
    /\ UNCHANGED <<inputs, killed, config, remaining, curContainer, staged, envv,
                   ctx, cancelled, tmpDir, tmp, defers, notifyOn, sigbuf, gpc,
                   gdone, removals, spawned, childEnv, printed, exportRes,
                   exitStatus, interrupts, caught>>

\* tmpDir is assigned (the variable the goroutine reads), the removal is
\* deferred, and tmp, err := filepath.Abs(tmpDir).
StoreTmpDir ==
    /\ Alive /\ mpc = "store_tmpdir"
    /\ tmpDir' = TmpDirName
    /\ Push(TmpDirDefers(keepArtifacts))
    /\ \E ok \in BOOLEAN :
         IF ok THEN /\ tmp' = FilepathAbs(TmpDirName)
                    /\ remaining' = config
                    /\ err' = err
                    /\ mpc' = "loop"
               ELSE /\ UNCHANGED <<tmp, remaining>>
                    /\ Fail("abs")
    /\ UNCHANGED <<inputs, killed, config, curContainer, staged, envv, ctx,
                   cancelled, dirExists, created, notifyOn, sigbuf, gpc, gdone,
                   removals, spawned, childEnv, printed, exportRes, exitStatus,
                   interrupts, caught>>

\* One iteration of the inner range loop.  Go visits map entries in an
\* unspecified order; the inner loop exhausts a container before the outer
\* loop moves to another one.
LoopVar ==
    /\ Alive /\ mpc = "loop"
    /\ \E varConf \in remaining :
         /\ (\E o \in remaining : o.container = curContainer)
               => varConf.container = curContainer
         /\ curContainer' = varConf.container
         /\ remaining' = remaining \ {varConf}
         /\ IF AlreadySet(varConf.varName)
              THEN UNCHANGED <<staged, envv, err, mpc>>
              ELSE LET filesMap == FilesFor(varConf, tmp)
                       tmpl == ParseTemplate(varConf.Template)
                       s == ExecuteTemplate(tmpl.tokens, filesMap)
                   IN  /\ staged' = staged \cup StagedFor(varConf)
                       /\ IF ~tmpl.ok THEN envv' = envv /\ Fail("parse")
                          ELSE IF ~s.ok THEN envv' = envv /\ Fail("execute")
                          ELSE /\ envv' = Append(envv, Entry(varConf.varName, s.out))
                               /\ UNCHANGED <<err, mpc>>
    /\ UNCHANGED <<inputs, killed, config, ctx, cancelled, tmpDir, tmp, dirExists,
                   created, defers, notifyOn, sigbuf, gpc, gdone, removals,
                   spawned, childEnv, printed, exportRes, exitStatus, interrupts,
                   caught>>

\* artifacts := base.Directory("/"); artifacts.Export(ctx, tmpDir).  A
\* successful export leaves the exported tree at tmpDir; a failed one may or
\* may not have written there.
Export ==
    /\ Alive /\ mpc = "loop" /\ remaining = {}
    /\ \E ok \in BOOLEAN, e \in BOOLEAN :
         /\ exportRes' = [called |-> TRUE, ok |-> ok, err |-> e]
         /\ IF ExportFailed(ok, e)
              THEN /\ Fail("export")
                   /\ dirExists' \in {dirExists, TRUE}
              ELSE /\ err' = err
                   /\ mpc' = "exec"
                   /\ dirExists' = (dirExists \/ ok)
    /\ UNCHANGED <<inputs, killed, config, remaining, curContainer, staged, envv,
                   ctx, cancelled, tmpDir, tmp, created, defers, notifyOn, sigbuf,
                   gpc, gdone, removals, spawned, childEnv, printed, exitStatus,
                   interrupts, caught>>

\* cmd := exec.Command(...); cmd.Env = append(os.Environ(), envv...); the
\* print is deferred under -keep-artifacts; cmd.Run() starts the command or
\* fails to.
Spawn ==
    /\ Alive /\ mpc = "exec"
    /\ childEnv' = environ \o envv
    /\ Push(PrintDefers(keepArtifacts))
    /\ \E started \in BOOLEAN :
         IF started THEN /\ spawned' = TRUE
                         /\ err' = err
                         /\ mpc' = "child_running"
                    ELSE /\ spawned' = spawned
                         /\ Fail("exec")
    /\ UNCHANGED <<inputs, killed, config, remaining, curContainer, staged, envv,
                   ctx, cancelled, tmpDir, tmp, dirExists, created, notifyOn,
                   sigbuf, gpc, gdone, removals, printed, exportRes, exitStatus,
                   interrupts, caught>>

\* cmd.Run() returns when the command exits; a non-zero exit is an error.
ChildExit ==
    /\ Alive /\ mpc = "child_running"
    /\ \E code \in {0, 1} :
         /\ err' = IF code = 0 THEN "" ELSE "exec"
         /\ mpc' = "returning"
    /\ UNCHANGED <<inputs, killed, config, remaining, curContainer, staged, envv,
                   ctx, cancelled, tmpDir, tmp, dirExists, created, defers,
                   notifyOn, sigbuf, gpc, gdone, removals, spawned, childEnv,
                   printed, exportRes, exitStatus, interrupts, caught>>

\* runNatively returns: the deferred calls run last-registered first.
\* wg.Wait() blocks until the goroutine has called wg.Done().
RunDeferred ==
    /\ Alive /\ mpc = "returning" /\ defers # <<>>
    /\ LET d == defers[Len(defers)] IN
         /\ d = "wg_wait" => gpc = "done"
         /\ defers' = SubSeq(defers, 1, Len(defers) - 1)
         /\ IF d = "remove_tmp"
              THEN dirExists' = FALSE /\ removals' = Append(removals, "main")
              ELSE UNCHANGED <<dirExists, removals>>
         /\ cancelled' = (cancelled \/ d = "cancel")
         /\ notifyOn' = (notifyOn /\ d # "signal_stop")
         /\ printed' = IF d = "print_envv" THEN PrintedLine(envv) ELSE printed
    /\ UNCHANGED <<inputs, mpc, killed, config, remaining, curContainer, staged,
                   envv, ctx, tmpDir, tmp, created, err, sigbuf, gpc, gdone,
                   spawned, childEnv, exportRes, exitStatus, interrupts, caught>>

\* runNatively has run all its deferred calls and hands err back to run.
runNativelyReturn ==
    /\ Alive /\ mpc = "returning" /\ defers = <<>>
    /\ mpc' = "run_returned"
    /\ UNCHANGED <<inputs, killed, config, remaining, curContainer, staged, envv,
                   ctx, cancelled, tmpDir, tmp, dirExists, created, defers, err,
                   notifyOn, sigbuf, gpc, gdone, removals, spawned, childEnv,
                   printed, exportRes, exitStatus, interrupts, caught>>

\* main: if err := run(); err != nil { log.Fatalf(...) }
main ==
    /\ Alive /\ mpc = "run_returned"
    /\ mpc' = "exited"
    /\ exitStatus' = IF err # "" THEN 1 ELSE 0
    /\ UNCHANGED <<inputs, killed, config, remaining, curContainer, staged, envv,
                   ctx, cancelled, tmpDir, tmp, dirExists, created, defers, err,
                   notifyOn, sigbuf, gpc, gdone, removals, spawned, childEnv,
                   printed, exportRes, interrupts, caught>>

(***************************************************************************)
(* The cleanup goroutine                                                   *)
(***************************************************************************)
gvarsUnchanged ==
    UNCHANGED <<inputs, mpc, killed, config, remaining, curContainer, staged,
                envv, ctx, cancelled, tmpDir, tmp, created, defers, err, notifyOn,
                spawned, childEnv, printed, exportRes, exitStatus, interrupts,
                caught>>

\* Entering the select evaluates ctx.Done() once, on whatever ctx holds at
\* that moment: context.Background() (whose Done channel is nil and never
\* ready) or the cancellable context.
GoSelect ==
    /\ Alive /\ gpc = "start"
    /\ gdone' = ctx
    /\ gpc' = "select"
    /\ UNCHANGED <<sigbuf, dirExists, removals>>
    /\ gvarsUnchanged

\* case <-c:
GoRecvSignal ==
    /\ Alive /\ gpc = "select" /\ sigbuf > 0
    /\ sigbuf' = sigbuf - 1
    /\ gpc' = "remove"
    /\ UNCHANGED <<gdone, dirExists, removals>>
    /\ gvarsUnchanged

\* os.RemoveAll(tmpDir), then wg.Done().  RemoveAll("") does nothing.
GoRemoveAll ==
    /\ Alive /\ gpc = "remove"
    /\ IF tmpDir # ""
         THEN dirExists' = FALSE /\ removals' = Append(removals, "handler")
         ELSE UNCHANGED <<dirExists, removals>>
    /\ gpc' = "done"
    /\ UNCHANGED <<gdone, sigbuf>>
    /\ gvarsUnchanged

\* case <-ctx.Done(): return, then wg.Done().
GoCtxDone ==
    /\ Alive /\ gpc = "select"
    /\ gdone = "cancellable" /\ cancelled
    /\ gpc' = "done"
    /\ UNCHANGED <<gdone, sigbuf, dirExists, removals>>
    /\ gvarsUnchanged

(***************************************************************************)
(* The environment: delivery of SIGINT                                     *)
(***************************************************************************)
\* With signal.Notify in force the signal is queued on c (dropped when the
\* buffer is full); otherwise the Go runtime's default action ends the process.
Interrupt ==
    /\ Alive /\ interrupts < MaxInterrupts
    /\ interrupts' = interrupts + 1
    /\ IF notifyOn
         THEN /\ sigbuf' = IF sigbuf < SigChanCap THEN sigbuf + 1 ELSE sigbuf
              /\ caught' = (caught \/ (sigbuf < SigChanCap /\ ~Completing))
              /\ UNCHANGED <<killed, exitStatus>>
         ELSE /\ killed' = TRUE
              /\ exitStatus' = 130
              /\ UNCHANGED <<sigbuf, caught>>
    /\ UNCHANGED <<inputs, mpc, config, remaining, curContainer, staged, envv,
                   ctx, cancelled, tmpDir, tmp, dirExists, created, defers, err,
                   notifyOn, gpc, gdone, removals, spawned, childEnv, printed,
                   exportRes>>

(***************************************************************************)
(* Specifications                                                          *)
(***************************************************************************)
Program ==
    \/ run
    \/ Connect
    \/ SetupCleanup
    \/ WithCancel
    \/ MkdirTemp
    \/ StoreTmpDir
    \/ LoopVar
    \/ Export
    \/ Spawn
    \/ ChildExit
    \/ RunDeferred
    \/ runNativelyReturn
    \/ main
    \/ GoSelect
    \/ GoRecvSignal
    \/ GoRemoveAll
    \/ GoCtxDone

Next == Program \/ Interrupt

Spec == Init /\ [][Next]_vars

\* The Go scheduler runs every runnable goroutine eventually and the external
\* calls return; no SIGINT is ever guaranteed to arrive.
FairSpec == Spec /\ WF_vars(Program)

(***************************************************************************)
(* Properties                                                              *)
(***************************************************************************)
HasAssignment(es, n) == \E i \in 1..Len(es) : es[i].name = n

Unsupported == ~Supported(archEnv) /\ ~Supported(goarch)

NoAmbient == \A v \in TargetVars : Getenv(v) = ""

\* wg.Wait() was registered and has returned.
WaitReturned == gpc # "none" /\ "wg_wait" \notin Range(defers)

Terminated == killed \/ mpc = "exited"

\* C1: a target variable whose ambient value is non-empty is skipped: nothing
\* is staged for its spec, no assignment for it is appended to envv, and the
\* child's environment carries its ambient value.
CallerOverrideWins ==
    \A v \in TargetVars :
        Getenv(v) # "" =>
            /\ \A varConf \in config :
                  varConf.varName = v => StagedFor(varConf) \cap staged = {}
            /\ ~HasAssignment(envv, v)
            /\ spawned => ChildGetenv(v) = Getenv(v)

CallerOverrideWitness ==
    /\ spawned
    /\ envv # <<>>
    /\ \E varConf \in config : Getenv(varConf.varName) # ""

\* C2: the target command is spawned only after the temporary directory was
\* created, every surviving variable was rendered and the export reported
\* success; after a failure of any of these the command is never spawned and
\* the run ends with an error.
AllOrNothing ==
    /\ spawned =>
          /\ created
          /\ exportRes = [called |-> TRUE, ok |-> TRUE, err |-> FALSE]
          /\ \A varConf \in config :
                Getenv(varConf.varName) = "" => HasAssignment(envv, varConf.varName)
    /\ (exportRes.called /\ (~exportRes.ok \/ exportRes.err)) =>
          (~spawned /\ err = "export")
    /\ err \in {"mkdir", "abs", "parse", "execute", "export"} =>
          (~spawned /\ (mpc = "exited" => exitStatus = 1))

AllOrNothingWitness ==
    /\ mpc = "exited"
    /\ exportRes = [called |-> TRUE, ok |-> FALSE, err |-> FALSE]
    /\ envv # <<>>

\* C3: without retention, a run in which a SIGINT was caught before the main
\* flow completed ends with a non-zero status.
InterruptAbortsRun ==
    (~keepArtifacts /\ caught /\ mpc = "exited") => exitStatus # 0

\* C4: without retention, once runNatively has returned after the temporary
\* directory was created, the directory no longer exists.
TmpDirRemovedOnReturn ==
    (~keepArtifacts /\ created /\ mpc \in {"run_returned", "exited"}) => ~dirExists

TmpDirRemovedWitness ==
    /\ ~keepArtifacts /\ created /\ caught
    /\ mpc = "run_returned" /\ err = ""
    /\ removals = <<"handler", "main">>

\* C5: with retention nothing removes the temporary directory, and after a
\* successful run the directory exists and the printed line is the join of
\* the assignments that were appended to the child's environment.
RetentionKeepsArtifacts ==
    keepArtifacts =>
        /\ removals = <<>>
        /\ created => dirExists
        /\ (mpc = "exited" /\ exitStatus = 0) =>
              /\ dirExists
              /\ printed =
                   PrintedLine(SubSeq(childEnv, Len(environ) + 1, Len(childEnv)))

RetentionWitness ==
    /\ keepArtifacts /\ mpc = "exited" /\ exitStatus = 0
    /\ Len(childEnv) = Len(environ) + 2

\* C6 (as stated): with an unsupported architecture and no ambient target
\* variables the command is not spawned and the run ends non-zero.
UnsupportedArchFails ==
    (Unsupported /\ NoAmbient) =>
        (~spawned /\ (mpc = "exited" => exitStatus # 0))

\* C6 (amended): with an unsupported architecture the configuration is empty,
\* nothing is staged or assigned, and the command is spawned with exactly the
\* ambient environment; the run's status is then the command's.
UnsupportedArchRunsBare ==
    (Unsupported /\ mpc # "start") =>
        /\ config = {}
        /\ staged = {} /\ envv = <<>>
        /\ spawned => childEnv = environ
        /\ (mpc = "exited" /\ spawned) => (exitStatus = 0 <=> err = "")

UnsupportedArchWitness ==
    /\ Unsupported /\ NoAmbient
    /\ spawned /\ mpc = "exited" /\ exitStatus = 0

\* C7: the argument check fails exactly when no positional command is given.
ArgValidationNeedsOnlyCommand ==
    mpc # "start" => (err = "usage" <=> Len(args) = 0)

\* C8: without retention the temporary directory is removed by at most one of
\* the interrupt handler and the normal-completion path, and never twice.
SingleDelete ==
    ~keepArtifacts => Len(removals) <= 1

\* C9 (as stated): the main path removes the temporary directory only after
\* it has cancelled the cleanup task and the cleanup task has exited.
RemovalAfterCleanupExit ==
    (~keepArtifacts /\ "main" \in Range(removals)) => (cancelled /\ gpc = "done")

\* C9 (amended): the main flow removes the temporary directory first, then
\* cancels, then waits: a cancel was preceded by the main path's removal
\* whenever a directory was stored, and the wait returns only after the cancel.
RemoveThenCancelThenWait ==
    ~keepArtifacts =>
        /\ (cancelled /\ tmpDir # "") => "main" \in Range(removals)
        /\ WaitReturned => cancelled

RemoveThenCancelThenWaitWitness ==
    /\ ~keepArtifacts /\ WaitReturned
    /\ removals = <<"main", "handler">>

\* C10: without retention every run terminates: the cleanup goroutine
\* finishes, wg.Wait() returns and runNatively returns.
NoHang ==
    ~keepArtifacts => <>Terminated

====
